---- MODULE Spec2Model ----
(* A model of Argument Clinic's permutation engine (clinic/option_groups.py),  *)
(* lexer (libclinic/parser.py), version comparator (libclinic/version.py),     *)
(* command-line driver (libclinic/cli.py) and raw-script block parser          *)
(* (clinic/parsers.py, clinic/parser.py).                                      *)
EXTENDS Integers, Sequences, FiniteSets, TLC

VARIABLES
    pLeft, pRequired, pRight,   \* arguments of permute_optional_groups
    pPc,                        \* "ready" | "returned" | "raised"
    pResult,                    \* the returned tuple of tuples
    pLeftYield, pRightYield,    \* what the two generators yielded for pLeft, pRight
    tLine,                      \* the line handed to tokenize, a sequence of characters
    tPos,                       \* where re.finditer resumes (1-based)
    tYielded,                   \* the tokens yielded so far
    tStarts,                    \* mo.start() of each yielded token (1-based)
    tStatus,                    \* "running" | "done" | "raised"
    tStray,                     \* the character named by the ParseError
    vVersion1, vVersion2,       \* arguments of version_comparator
    vPc,                        \* "ready" | "returned" | "raised"
    vResult,                    \* the value returned: -1, 0 or 1
    vRaised,                    \* the exception that left version_comparator
    cArgs,                      \* the parsed command line (argparse.Namespace)
    cWalk,                      \* the files os.walk(ns.srcdir) finds, already filtered
    cQueue,                     \* the files run_clinic iterates over
    cIdx,                       \* index in cQueue of the file being processed
    cPc,                        \* where main is
    cLanguage,                  \* parse_file's language
    cOutputPath,                \* parse_file's output: "in" (the input path) | "out"
    cExc,                       \* the exception in flight, "none" if none
    cExit,                      \* the status main exited with, -1 while it has not
    cStderr,                    \* what was written to sys.stderr
    cWrites,                    \* the calls of libclinic.write_file, in order
    nBase,                      \* clinic.parser._BASE_NAMESPACE
    nParsers,                   \* the namespace of each PythonParser instance
    nTouched,                   \* the names earlier blocks bound, rebound or deleted
    nRun                        \* the PythonParser.parse call in progress, or the last one

permVars == <<pLeft, pRequired, pRight, pPc, pResult, pLeftYield, pRightYield>>

tokVars == <<tLine, tPos, tYielded, tStarts, tStatus, tStray>>

verVars == <<vVersion1, vVersion2, vPc, vResult, vRaised>>

cliVars == <<cArgs, cWalk, cQueue, cIdx, cPc, cLanguage, cOutputPath, cExc, cExit,
             cStderr, cWrites>>

nsVars == <<nBase, nParsers, nTouched, nRun>>

vars == <<permVars, tokVars, verVars, cliVars, nsVars>>

\* what each component's actions leave alone
notPerm == <<tokVars, verVars, cliVars, nsVars>>
notTok == <<permVars, verVars, cliVars, nsVars>>
notVer == <<permVars, tokVars, cliVars, nsVars>>
notCli == <<permVars, tokVars, verVars, nsVars>>
notNs == <<permVars, tokVars, verVars, cliVars>>

\* ---------------------------------------------------------------- bounds

MaxGroups == 3
MaxLineLen == 3
MaxVerLen == 3
MaxFiles == 2
MaxParsers == 2
MaxStmts == 2

\* ------------------------------------------------- clinic/option_groups.py

\* The parameter groups the inputs are drawn from (a group is any iterable of
\* parameters, the empty one included).
GroupPool == { <<>>, <<1>>, <<2, 3>> }
RequiredPool == { <<>>, <<7>>, <<8, 9>> }

RECURSIVE SeqsUpTo(_, _)
SeqsUpTo(S, n) ==
    IF n = 0 THEN { <<>> }
    ELSE LET shorter == SeqsUpTo(S, n - 1)
         IN  shorter \cup { Append(s, x) : s \in { t \in shorter : Len(t) = n - 1 }, x \in S }

GroupLists == SeqsUpTo(GroupPool, MaxGroups)

\* for group in reversed(l): accumulator = list(group) + accumulator; yield
RECURSIVE left_loop(_, _, _, _)
left_loop(l, i, accumulator, yielded) ==
    IF i = 0 THEN yielded
    ELSE LET acc == l[i] \o accumulator
         IN  left_loop(l, i - 1, acc, Append(yielded, acc))

permute_left_forward(l) ==
    LET rev == [i \in 1..Len(l) |-> l[Len(l) + 1 - i]]
    IN  left_loop(rev, Len(rev), <<>>, << <<>> >>)

permute_left_option_groups(l) == left_loop(l, Len(l), <<>>, << <<>> >>)

\* for group in l: accumulator.extend(group); yield
RECURSIVE right_loop(_, _, _, _)
right_loop(l, i, accumulator, yielded) ==
    IF i > Len(l) THEN yielded
    ELSE LET acc == accumulator \o l[i]
         IN  right_loop(l, i + 1, acc, Append(yielded, acc))

permute_right_option_groups(l) == right_loop(l, 1, <<>>, << <<>> >>)

\* if not required: if left: raise ValueError
required_empty_only(left, required) == required = <<>>

required_empty_but_left_not(left, required) == required = <<>> /\ left # <<>>

\* if len(t) in counts: continue
never_seen(t, counts) == FALSE

length_seen(t, counts) == Len(t) \in counts

\* the body of the inner loop, on the pair [counts, accumulator]
visit(t, st) ==
    IF length_seen(t, st.counts) THEN st
    ELSE [counts |-> st.counts \cup {Len(t)}, accumulator |-> Append(st.accumulator, t)]

RECURSIVE inner_loop(_, _, _, _, _)
inner_loop(ls, required, r, li, st) ==
    IF li > Len(ls) THEN st
    ELSE inner_loop(ls, required, r, li + 1, visit(ls[li] \o required \o r, st))

RECURSIVE outer_loop(_, _, _, _, _)
outer_loop(rs, ls, required, ri, st) ==
    IF ri > Len(rs) THEN st
    ELSE outer_loop(rs, ls, required, ri + 1, inner_loop(ls, required, rs[ri], 1, st))

\* list.sort(key=len): a stable sort, here by insertion
RECURSIVE insert_by_len(_, _)
insert_by_len(sorted, t) ==
    IF sorted = <<>> THEN <<t>>
    ELSE IF Len(sorted[Len(sorted)]) <= Len(t) THEN Append(sorted, t)
    ELSE Append(insert_by_len(SubSeq(sorted, 1, Len(sorted) - 1), t), sorted[Len(sorted)])

RECURSIVE sort_by_len(_, _)
sort_by_len(xs, i) ==
    IF i = 0 THEN <<>> ELSE insert_by_len(sort_by_len(xs, i - 1), xs[i])

permute_optional_groups(left, required, right) ==
    IF required_empty_but_left_not(left, required)
    THEN [raised |-> "ValueError", value |-> <<>>]
    ELSE LET st == outer_loop(permute_right_option_groups(right),
                              permute_left_option_groups(left),
                              required, 1,
                              [counts |-> {}, accumulator |-> <<>>])
         IN  [raised |-> "none",
              value |-> sort_by_len(st.accumulator, Len(st.accumulator))]

\* One call of permute_optional_groups(pLeft, pRequired, pRight), with the two
\* generators drained on the same arguments.
PermCall ==
    /\ pPc = "ready"
    /\ LET res == permute_optional_groups(pLeft, pRequired, pRight)
       IN  /\ pPc' = IF res.raised = "none" THEN "returned" ELSE "raised"
           /\ pResult' = res.value
    /\ pLeftYield' = permute_left_option_groups(pLeft)
    /\ pRightYield' = permute_right_option_groups(pRight)
    /\ UNCHANGED <<pLeft, pRequired, pRight, notPerm>>

\* --------------------------------------------------- libclinic/parser.py

Letters == { "a", "b", "c", "d", "e", "f", "g", "h", "i", "j", "k", "l", "m",
             "n", "o", "p", "q", "r", "s", "t", "u", "v", "w", "x", "y", "z",
             "A", "B", "C", "D", "E", "F", "G", "H", "I", "J", "K", "L", "M",
             "N", "O", "P", "Q", "R", "S", "T", "U", "V", "W", "X", "Y", "Z" }
Digits == { "0", "1", "2", "3", "4", "5", "6", "7", "8", "9" }
\* A word character outside ASCII (e-acute): the pattern is a str pattern
\* compiled without re.ASCII, so \w matches Unicode word characters.
NonAsciiWordChars == { "U+00E9" }

\* \w
word_class(c) == c \in Letters \cup Digits \cup {"_"} \cup NonAsciiWordChars
\* '.' of a pattern compiled without re.DOTALL
dot_class(c) == c # "\n"

RECURSIVE word_end(_, _)
word_end(line, i) ==
    IF i <= Len(line) /\ (word_class(line[i]) \/ line[i] = ".") THEN word_end(line, i + 1) ELSE i

RECURSIVE space_end(_, _)
space_end(line, i) ==
    IF i <= Len(line) /\ line[i] = " " THEN space_end(line, i + 1) ELSE i

RECURSIVE dot_end(_, _)
dot_end(line, i) ==
    IF i <= Len(line) /\ dot_class(line[i]) THEN dot_end(line, i + 1) ELSE i

MaxOf(S) == CHOOSE x \in S : \A y \in S : y <= x
MinOf(S) == CHOOSE x \in S : \A y \in S : x <= y

\* r"\(.*?\)": the parenthesis closed at the first ')'
args_lazy(line, i) ==
    IF line[i] # "(" THEN 0
    ELSE LET closers == { j \in (i + 1)..(dot_end(line, i + 1) - 1) : line[j] = ")" }
         IN  IF closers = {} THEN 0 ELSE MinOf(closers) + 1

\* r"\(.*\)": .* runs to the end of the line, then backs up to the last ')'
args_greedy(line, i) ==
    IF line[i] # "(" THEN 0
    ELSE LET closers == { j \in (i + 1)..(dot_end(line, i + 1) - 1) : line[j] = ")" }
         IN  IF closers = {} THEN 0 ELSE MaxOf(closers) + 1

token_specification == << "ARROW", "CLONE", "ARGS", "WORD", "SPACE", "MISMATCH" >>

\* Where the alternative `kind` ends when tried at i (exclusive), 0 when it
\* does not match there.
match_alternative(kind, line, i) ==
    CASE kind = "ARROW"    -> IF line[i] = "-" /\ i < Len(line) /\ line[i + 1] = ">" THEN i + 2 ELSE 0
      [] kind = "CLONE"    -> IF line[i] = "=" THEN i + 1 ELSE 0
      [] kind = "ARGS"     -> args_greedy(line, i)
      [] kind = "WORD"     -> IF word_end(line, i) > i THEN word_end(line, i) ELSE 0
      [] kind = "SPACE"    -> IF space_end(line, i) > i THEN space_end(line, i) ELSE 0
      [] kind = "MISMATCH" -> IF dot_class(line[i]) THEN i + 1 ELSE 0

\* The alternation at i: the first alternative, in order, that matches.
RECURSIVE match_from(_, _, _)
match_from(line, i, k) ==
    IF k > Len(token_specification) THEN [kind |-> "NONE", end |-> 0]
    ELSE LET e == match_alternative(token_specification[k], line, i)
         IN  IF e > 0 THEN [kind |-> token_specification[k], start |-> i, end |-> e]
             ELSE match_from(line, i, k + 1)

\* The next match object of re.finditer(regex, line) from pos on.
RECURSIVE finditer_next(_, _)
finditer_next(line, pos) ==
    IF pos > Len(line) THEN [kind |-> "NONE", end |-> 0]
    ELSE LET mo == match_from(line, pos, 1)
         IN  IF mo.kind # "NONE" THEN mo ELSE finditer_next(line, pos + 1)

\* What the loop body does with a match of each kind.
on_match_mismatch_skipped(kind) ==
    IF kind \in {"SPACE", "MISMATCH"} THEN "continue" ELSE "yield"

on_match(kind) ==
    IF kind = "SPACE" THEN "continue"
    ELSE IF kind = "MISMATCH" THEN "raise"
    ELSE "yield"

LineAlphabet == { "a", ".", "(", ")", "-", ">", "=", " ", "#", "\n", "U+00E9" }

Chars(str) == [i \in 1..Len(str) |-> SubSeq(str, i, i)]

LineExamples ==
    { Chars("foo(bar)->baz=1"), Chars("f(a) -> (b)c)"), Chars("a.b_c = d # e"),
      Chars("x -> y(#)\n"), Chars("g(a)(b)"), Chars("a \nb") }

Lines == SeqsUpTo(LineAlphabet, MaxLineLen) \cup LineExamples

Value(line, mo) == SubSeq(line, mo.start, mo.end - 1)

\* yield Token(kind, value)
TokYield ==
    /\ tStatus = "running"
    /\ LET mo == finditer_next(tLine, tPos)
       IN  /\ mo.kind # "NONE"
           /\ on_match(mo.kind) = "yield"
           /\ tYielded' = Append(tYielded, [kind |-> mo.kind, value |-> Value(tLine, mo)])
           /\ tStarts' = Append(tStarts, mo.start)
           /\ tPos' = mo.end
    /\ UNCHANGED <<tLine, tStatus, tStray, notTok>>

\* if kind == "SPACE": continue
TokSkip ==
    /\ tStatus = "running"
    /\ LET mo == finditer_next(tLine, tPos)
       IN  /\ mo.kind # "NONE"
           /\ on_match(mo.kind) = "continue"
           /\ tPos' = mo.end
    /\ UNCHANGED <<tLine, tYielded, tStarts, tStatus, tStray, notTok>>

\* elif kind == "MISMATCH": raise ParseError(f"{value!r} stray character in input")
TokRaise ==
    /\ tStatus = "running"
    /\ LET mo == finditer_next(tLine, tPos)
       IN  /\ mo.kind # "NONE"
           /\ on_match(mo.kind) = "raise"
           /\ tStray' = Value(tLine, mo)
           /\ tStatus' = "raised"
           /\ tPos' = mo.start
    /\ UNCHANGED <<tLine, tYielded, tStarts, notTok>>

\* finditer is exhausted: the generator returns
TokStop ==
    /\ tStatus = "running"
    /\ finditer_next(tLine, tPos).kind = "NONE"
    /\ tStatus' = "done"
    /\ tPos' = Len(tLine) + 1
    /\ UNCHANGED <<tLine, tYielded, tStarts, tStray, notTok>>

\* -------------------------------------------------- libclinic/version.py

\* A character for which str.isdigit() is true and int() fails (superscript two).
NonDecimalDigits == { "U+00B2" }

\* c.isdigit()
isdigit(c) == c \in Digits \cup NonDecimalDigits

DigitValue(c) ==
    CASE c = "0" -> 0 [] c = "1" -> 1 [] c = "2" -> 2 [] c = "3" -> 3 [] c = "4" -> 4
      [] c = "5" -> 5 [] c = "6" -> 6 [] c = "7" -> 7 [] c = "8" -> 8 [] c = "9" -> 9

\* int(''.join(accumulator)) for decimal digits, most significant first
RECURSIVE int(_, _)
int(accumulator, n) ==
    IF n = 0 THEN 0 ELSE int(accumulator, n - 1) * 10 + DigitValue(accumulator[n])

\* 'abc'.index(c) - 3
letter_code_from_zero(c) == CASE c = "a" -> 0 [] c = "b" -> 1 [] c = "c" -> 2

letter_code(c) == CASE c = "a" -> -3 [] c = "b" -> -2 [] c = "c" -> -1

\* flush(): on the triple [version, accumulator, raised]
flush(st) ==
    IF st.accumulator = <<>> THEN [st EXCEPT !.raised = "ParseVersionError"]
    ELSE IF \E i \in 1..Len(st.accumulator) : st.accumulator[i] \notin Digits
    THEN [st EXCEPT !.raised = "ValueError"]
    ELSE [version |-> Append(st.version, int(st.accumulator, Len(st.accumulator))),
          accumulator |-> <<>>,
          raised |-> "none"]

\* for c in s: ...; flush()
RECURSIVE splitter_loop(_, _, _)
splitter_loop(s, i, st) ==
    IF st.raised # "none" THEN st
    ELSE IF i > Len(s) THEN flush(st)
    ELSE LET c == s[i]
         IN  IF isdigit(c)
             THEN splitter_loop(s, i + 1, [st EXCEPT !.accumulator = Append(@, c)])
             ELSE IF c = "."
             THEN splitter_loop(s, i + 1, flush(st))
             ELSE IF c \in {"a", "b", "c"}
             THEN LET f == flush(st)
                  IN  IF f.raised # "none" THEN f
                      ELSE splitter_loop(s, i + 1,
                               [f EXCEPT !.version = Append(@, letter_code(c))])
             ELSE [st EXCEPT !.raised = "ParseVersionError"]

version_splitter(s) ==
    LET st == splitter_loop(s, 1, [version |-> <<>>, accumulator |-> <<>>, raised |-> "none"])
    IN  [raised |-> st.raised, value |-> IF st.raised = "none" THEN st.version ELSE <<>>]

\* itertools.zip_longest(a, b, fillvalue=0), one pair
zip_item(t, i) == IF i <= Len(t) THEN t[i] ELSE 0

\* for a, b in iterator: if a < b: return -1; if a > b: return 1
RECURSIVE compare_loop_shortest(_, _, _)
compare_loop_shortest(t1, t2, i) ==
    IF i > Len(t1) \/ i > Len(t2) THEN 0
    ELSE IF t1[i] < t2[i] THEN -1
    ELSE IF t1[i] > t2[i] THEN 1
    ELSE compare_loop_shortest(t1, t2, i + 1)

RECURSIVE compare_loop(_, _, _)
compare_loop(t1, t2, i) ==
    IF i > Len(t1) /\ i > Len(t2) THEN 0
    ELSE IF zip_item(t1, i) < zip_item(t2, i) THEN -1
    ELSE IF zip_item(t1, i) > zip_item(t2, i) THEN 1
    ELSE compare_loop(t1, t2, i + 1)

version_comparator(version1, version2) ==
    LET s1 == version_splitter(version1)
        s2 == version_splitter(version2)
    IN  IF s1.raised # "none" THEN [raised |-> s1.raised, value |-> 0]
        ELSE IF s2.raised # "none" THEN [raised |-> s2.raised, value |-> 0]
        ELSE [raised |-> "none", value |-> compare_loop(s1.value, s2.value, 1)]

VerAlphabet == { "0", "1", ".", "b" }

VerExamples ==
    { Chars("1.4b3"), Chars("1.4.0"), Chars("1.4"), Chars("1a2"), Chars("1c2"),
      Chars("10"), Chars("9"), Chars("1x"), << "1", "U+00B2" >> }

VersionStrings == SeqsUpTo(VerAlphabet, MaxVerLen) \cup VerExamples

\* One call of version_comparator(vVersion1, vVersion2).
VerCall ==
    /\ vPc = "ready"
    /\ LET res == version_comparator(vVersion1, vVersion2)
       IN  /\ vPc' = IF res.raised = "none" THEN "returned" ELSE "raised"
           /\ vResult' = res.value
           /\ vRaised' = res.raised
    /\ UNCHANGED <<vVersion1, vVersion2, notVer>>

\* ------------------------------------------------------ libclinic/cli.py

\* What Clinic(...).parse(raw) can do: return the cooked text, or raise.
\* ValueError is the one permute_optional_groups raises, ParseVersionError the
\* one _version_splitter raises, ParseError the one tokenize raises.
ParseOutcomes ==
    { "ok", "ClinicError", "ParseError", "ChecksumMismatchError", "ValueError",
      "ParseVersionError" }

\* A named file: its extension, whether open() succeeds, whether its text
\* holds a start marker, and what parsing its text does.
File(ext, exists, marker, parse) ==
    [ext |-> ext, exists |-> exists, marker |-> marker, parse |-> parse]

CSourceFiles ==
    { File("c", FALSE, FALSE, "ok"), File("c", TRUE, FALSE, "ok") }
    \cup { File("c", TRUE, TRUE, o) : o \in ParseOutcomes }

NamedFiles ==
    CSourceFiles
    \cup { File("", TRUE, FALSE, "ok"), File("txt", TRUE, FALSE, "ok"),
           File("py", TRUE, FALSE, "ok"), File("py", TRUE, TRUE, "ok") }

\* class ParseVersionError(BaseException); the built-in exceptions
source_base(cls) ==
    CASE cls = "ParseVersionError" -> "BaseException"
      [] cls \in {"ValueError", "AssertionError", "FileNotFoundError", "KeyError"} -> "Exception"
      [] cls = "Exception" -> "BaseException"
      [] OTHER -> "none"

\* libclinic/errors.py: ClinicError and the errors reported through it
errors_base(cls) ==
    CASE cls = "ClinicError" -> "Exception"
      [] cls \in {"ParseError", "ChecksumMismatchError"} -> "ClinicError"
      [] OTHER -> "none"

base_of(cls) == IF source_base(cls) # "none" THEN source_base(cls) ELSE errors_base(cls)

RECURSIVE isinstance(_, _)
isinstance(exc, cls) ==
    IF exc = cls THEN TRUE
    ELSE IF base_of(exc) = "none" THEN FALSE
    ELSE isinstance(base_of(exc), cls)

\* except Exception as exc:
caught_if_exception(exc) == isinstance(exc, "Exception")

\* except ClinicError as exc:
caught_by_main(exc) == isinstance(exc, "ClinicError")

\* extensions.get(extension, CLanguage)
language_or_c(extension) ==
    IF extension = "py" THEN "PythonLanguage" ELSE "CLanguage"

\* extensions[extension]
extensions(extension) ==
    IF extension \in {"c", "cc", "cpp", "cxx", "h", "hh", "hpp", "hxx"} THEN "CLanguage"
    ELSE IF extension = "py" THEN "PythonLanguage"
    ELSE "KeyError"

\* find_start_re.search(raw)
search_always_finds(file) == TRUE

find_start_re_search(file) == file.marker

CurrentFile == cQueue[cIdx]

Raise(exc) == cPc' = "raised" /\ cExc' = exc

\* parser.error(message): prints the usage and exits with status 2
ParserError ==
    /\ cPc' = "exited" /\ cExit' = 2 /\ cStderr' = Append(cStderr, "usage")

\* run_clinic: one of the parser.error(...) exits
ArgError ==
    /\ cPc = "main"
    /\ \/ cArgs.converters /\ cArgs.filename # <<>>
       \/ ~cArgs.converters /\ cArgs.make /\ (cArgs.output # "none" \/ cArgs.filename # <<>>)
       \/ ~cArgs.converters /\ cArgs.make /\ cArgs.srcdir = ""
       \/ ~cArgs.converters /\ ~cArgs.make /\ cArgs.filename = <<>>
       \/ ~cArgs.converters /\ ~cArgs.make /\ cArgs.output # "none" /\ Len(cArgs.filename) > 1
    /\ ParserError
    /\ UNCHANGED <<cArgs, cWalk, cQueue, cIdx, cLanguage, cOutputPath, cExc, cWrites, notCli>>

\* run_clinic with --converters: prints the converters and returns
ListConverters ==
    /\ cPc = "main"
    /\ cArgs.converters /\ cArgs.filename = <<>>
    /\ cPc' = "returned"
    /\ UNCHANGED <<cArgs, cWalk, cQueue, cIdx, cLanguage, cOutputPath, cExc, cExit, cStderr,
                   cWrites, notCli>>

\* run_clinic with --make: the loop over the walked files starts
StartMake ==
    /\ cPc = "main"
    /\ ~cArgs.converters /\ cArgs.make
    /\ cArgs.output = "none" /\ cArgs.filename = <<>> /\ cArgs.srcdir # ""
    /\ cQueue' = cWalk
    /\ cPc' = "loop"
    /\ UNCHANGED <<cArgs, cWalk, cIdx, cLanguage, cOutputPath, cExc, cExit, cStderr, cWrites,
                   notCli>>

\* run_clinic with filenames: the loop over ns.filename starts
StartFiles ==
    /\ cPc = "main"
    /\ ~cArgs.converters /\ ~cArgs.make
    /\ cArgs.filename # <<>>
    /\ ~(cArgs.output # "none" /\ Len(cArgs.filename) > 1)
    /\ cQueue' = cArgs.filename
    /\ cPc' = "loop"
    /\ UNCHANGED <<cArgs, cWalk, cIdx, cLanguage, cOutputPath, cExc, cExit, cStderr, cWrites,
                   notCli>>

\* for filename in ...: the next file, or the end of the loop
LoopNext ==
    /\ cPc = "loop"
    /\ IF cIdx < Len(cQueue)
       THEN cIdx' = cIdx + 1 /\ cPc' = "parse_file"
       ELSE cIdx' = cIdx /\ cPc' = "returned"
    /\ UNCHANGED <<cArgs, cWalk, cQueue, cLanguage, cOutputPath, cExc, cExit, cStderr, cWrites,
                   notCli>>

\* parse_file: output, extension, language
PfStart ==
    /\ cPc = "parse_file"
    /\ cOutputPath' = IF cArgs.make \/ cArgs.output = "none" THEN "in" ELSE "out"
    /\ IF CurrentFile.ext = ""
       THEN Raise("ClinicError") /\ cLanguage' = "none"
       ELSE IF extensions(CurrentFile.ext) = "KeyError"
       THEN Raise("ClinicError") /\ cLanguage' = "none"
       ELSE cLanguage' = extensions(CurrentFile.ext) /\ cPc' = "open" /\ cExc' = cExc
    /\ UNCHANGED <<cArgs, cWalk, cQueue, cIdx, cExit, cStderr, cWrites, notCli>>

\* with open(filename, encoding="utf-8") as f: raw = f.read()
PfRead ==
    /\ cPc = "open"
    /\ IF CurrentFile.exists
       THEN cPc' = "search" /\ cExc' = cExc
       ELSE Raise("FileNotFoundError")
    /\ UNCHANGED <<cArgs, cWalk, cQueue, cIdx, cLanguage, cOutputPath, cExit, cStderr, cWrites,
                   notCli>>

\* if not find_start_re.search(raw): return
PfSearch ==
    /\ cPc = "search"
    /\ cPc' = IF find_start_re_search(CurrentFile) THEN "parse" ELSE "loop"
    /\ UNCHANGED <<cArgs, cWalk, cQueue, cIdx, cLanguage, cOutputPath, cExc, cExit, cStderr,
                   cWrites, notCli>>

\* assert isinstance(language, CLanguage); cooked = Clinic(...).parse(raw)
PfParse ==
    /\ cPc = "parse"
    /\ IF cLanguage # "CLanguage" THEN Raise("AssertionError")
       ELSE IF CurrentFile.parse # "ok" THEN Raise(CurrentFile.parse)
       ELSE cPc' = "write" /\ cExc' = cExc
    /\ UNCHANGED <<cArgs, cWalk, cQueue, cIdx, cLanguage, cOutputPath, cExit, cStderr, cWrites,
                   notCli>>

\* libclinic.write_file(output, cooked)
PfWrite ==
    /\ cPc = "write"
    /\ cWrites' = Append(cWrites, [file |-> cIdx, path |-> cOutputPath])
    /\ cPc' = "loop"
    /\ UNCHANGED <<cArgs, cWalk, cQueue, cIdx, cLanguage, cOutputPath, cExc, cExit, cStderr,
                   notCli>>

\* except ClinicError as exc: sys.stderr.write(exc.report()); sys.exit(1)
MainExcept ==
    /\ cPc = "raised"
    /\ caught_by_main(cExc)
    /\ cStderr' = Append(cStderr, "report")
    /\ cExit' = 1
    /\ cPc' = "exited"
    /\ UNCHANGED <<cArgs, cWalk, cQueue, cIdx, cLanguage, cOutputPath, cExc, cWrites, notCli>>

\* any other exception leaves main
MainPropagate ==
    /\ cPc = "raised"
    /\ ~caught_by_main(cExc)
    /\ cPc' = "uncaught"
    /\ UNCHANGED <<cArgs, cWalk, cQueue, cIdx, cLanguage, cOutputPath, cExc, cExit, cStderr,
                   cWrites, notCli>>

\* else: sys.exit(0)
MainElse ==
    /\ cPc = "returned"
    /\ cExit' = 0
    /\ cPc' = "exited"
    /\ UNCHANGED <<cArgs, cWalk, cQueue, cIdx, cLanguage, cOutputPath, cExc, cStderr, cWrites,
                   notCli>>

\* ------------------------------- clinic/parser.py and clinic/parsers.py

\* the keys of the converters and return_converters tables
converters == { "int", "str" }
return_converters == { "int" }

\* A namespace is a function from the names it binds to what they are bound
\* to; "base" stands for the object the base namespace binds to a name.
Bind(ns, name, value) ==
    [n \in DOMAIN ns \cup {name} |-> IF n = name THEN value ELSE ns[n]]
Unbind(ns, name) == [n \in DOMAIN ns \ {name} |-> ns[n]]

create_base_namespace ==
    LET names == { "CConverter", "CReturnConverter", "buffer", "robuffer", "rwbuffer",
                   "unspecified", "NoneType" }
                 \cup { name \o "_converter" : name \in converters }
                 \cup { name \o "_return_converter" : name \in return_converters }
    IN  [n \in names |-> "base"]

\* _BASE_NAMESPACE.copy()
create_parser_namespace(base) == base

\* The statements of a raw-script block: NAME = value, del NAME, print(NAME).
StmtNames == { "x", "buffer" }
Stmts == [op : {"bind", "del", "print"}, name : StmtNames]

\* one statement run with run.ns as globals
exec_stmt(stmt, run) ==
    CASE stmt.op = "bind" ->
           [run EXCEPT !.ns = Bind(run.ns, stmt.name, "new")]
      [] stmt.op = "del" ->
           IF stmt.name \in DOMAIN run.ns
           THEN [run EXCEPT !.ns = Unbind(run.ns, stmt.name)]
           ELSE [run EXCEPT !.raised = "NameError"]
      [] stmt.op = "print" ->
           IF stmt.name \in DOMAIN run.ns
           THEN [run EXCEPT !.stdout = Append(run.stdout, run.ns[stmt.name])]
           ELSE [run EXCEPT !.raised = "NameError"]

\* exec(block.input, self.namespace): what self.namespace is while the block
\* runs in the namespace itself
namespace_shared_with_block(own, executed) == executed

\* ns = dict(self.namespace); exec(block.input, ns): what self.namespace is
\* while the block runs in ns, a dict of its own
namespace_after_exec(own, executed) == own

NoRun ==
    [parser |-> 0, status |-> "none", input |-> <<>>, ns |-> << >>, stdout |-> <<>>,
     raised |-> "none", output |-> <<>>, touchedBefore |-> {}]

\* PythonParser.__init__
NewParser ==
    /\ nRun.status # "running"
    /\ Len(nParsers) < MaxParsers
    /\ nParsers' = Append(nParsers, create_parser_namespace(nBase))
    /\ UNCHANGED <<nBase, nTouched, nRun, notNs>>

\* PythonParser.parse(block) on parser p: ns = dict(self.namespace), stdout is
\* redirected, and exec starts, which binds __builtins__ in ns
ParseBegin ==
    /\ nRun.status # "running"
    /\ \E p \in 1..Len(nParsers) :
          LET ns == Bind(nParsers[p], "__builtins__", "builtins")
          IN  /\ nRun' = [NoRun EXCEPT !.parser = p, !.status = "running", !.ns = ns,
                                       !.touchedBefore = nTouched]
              /\ nParsers' = [nParsers EXCEPT ![p] = namespace_after_exec(@, ns)]
    /\ UNCHANGED <<nBase, nTouched, notNs>>

\* the next statement of block.input runs
ExecStmt ==
    /\ nRun.status = "running"
    /\ Len(nRun.input) < MaxStmts
    /\ \E stmt \in Stmts :
          LET run == exec_stmt(stmt, [nRun EXCEPT !.input = Append(@, stmt)])
          IN  /\ nRun' = IF run.raised = "none" THEN run ELSE [run EXCEPT !.status = "raised"]
              /\ nTouched' = IF run.ns # nRun.ns THEN nTouched \cup {stmt.name} ELSE nTouched
              /\ nParsers' = [nParsers EXCEPT ![nRun.parser] = namespace_after_exec(@, run.ns)]
    /\ UNCHANGED <<nBase, notNs>>

\* exec returns: block.output = s.getvalue()
ParseEnd ==
    /\ nRun.status = "running"
    /\ nRun' = [nRun EXCEPT !.status = "returned", !.output = nRun.stdout]
    /\ UNCHANGED <<nBase, nParsers, nTouched, notNs>>

\* ------------------------------------------------------- specifications

\* the arguments of one call of permute_optional_groups; the other components are not running
PermInit ==
    /\ pLeft \in GroupLists
    /\ pRequired \in RequiredPool
    /\ pRight \in GroupLists
    /\ pPc = "ready"
    /\ pResult = <<>>
    /\ pLeftYield = <<>>
    /\ pRightYield = <<>>
    /\ tLine = <<>> /\ tPos = 1 /\ tYielded = <<>> /\ tStarts = <<>>
    /\ tStatus = "idle" /\ tStray = ""
    /\ vVersion1 = <<>> /\ vVersion2 = <<>> /\ vPc = "idle" /\ vResult = 0 /\ vRaised = "none"
    /\ cArgs = [converters |-> FALSE, make |-> FALSE, output |-> "none", srcdir |-> ".",
                 filename |-> <<>>]
    /\ cWalk = <<>> /\ cQueue = <<>> /\ cIdx = 0 /\ cPc = "idle" /\ cLanguage = "none"
    /\ cOutputPath = "none" /\ cExc = "none" /\ cExit = -1 /\ cStderr = <<>> /\ cWrites = <<>>
    /\ nBase = create_base_namespace /\ nParsers = <<>> /\ nTouched = {}
    /\ nRun = [NoRun EXCEPT !.status = "idle"]

\* the line of one call of tokenize; the other components are not running
TokInit ==
    /\ tLine \in Lines
    /\ tPos = 1
    /\ tYielded = <<>>
    /\ tStarts = <<>>
    /\ tStatus = "running"
    /\ tStray = ""
    /\ pLeft = <<>> /\ pRequired = <<>> /\ pRight = <<>>
    /\ pPc = "idle" /\ pResult = <<>> /\ pLeftYield = <<>> /\ pRightYield = <<>>
    /\ vVersion1 = <<>> /\ vVersion2 = <<>> /\ vPc = "idle" /\ vResult = 0 /\ vRaised = "none"
    /\ cArgs = [converters |-> FALSE, make |-> FALSE, output |-> "none", srcdir |-> ".",
                 filename |-> <<>>]
    /\ cWalk = <<>> /\ cQueue = <<>> /\ cIdx = 0 /\ cPc = "idle" /\ cLanguage = "none"
    /\ cOutputPath = "none" /\ cExc = "none" /\ cExit = -1 /\ cStderr = <<>> /\ cWrites = <<>>
    /\ nBase = create_base_namespace /\ nParsers = <<>> /\ nTouched = {}
    /\ nRun = [NoRun EXCEPT !.status = "idle"]

\* the arguments of one call of version_comparator; the other components are not running
VerInit ==
    /\ vVersion1 \in VersionStrings
    /\ vVersion2 \in VersionStrings
    /\ vPc = "ready"
    /\ vResult = 0
    /\ vRaised = "none"
    /\ pLeft = <<>> /\ pRequired = <<>> /\ pRight = <<>>
    /\ pPc = "idle" /\ pResult = <<>> /\ pLeftYield = <<>> /\ pRightYield = <<>>
    /\ tLine = <<>> /\ tPos = 1 /\ tYielded = <<>> /\ tStarts = <<>>
    /\ tStatus = "idle" /\ tStray = ""
    /\ cArgs = [converters |-> FALSE, make |-> FALSE, output |-> "none", srcdir |-> ".",
                 filename |-> <<>>]
    /\ cWalk = <<>> /\ cQueue = <<>> /\ cIdx = 0 /\ cPc = "idle" /\ cLanguage = "none"
    /\ cOutputPath = "none" /\ cExc = "none" /\ cExit = -1 /\ cStderr = <<>> /\ cWrites = <<>>
    /\ nBase = create_base_namespace /\ nParsers = <<>> /\ nTouched = {}
    /\ nRun = [NoRun EXCEPT !.status = "idle"]

\* the command line of one run of main; the other components are not running
CliInit ==
    /\ cArgs \in [converters : BOOLEAN, make : BOOLEAN, output : {"none", "out"},
                   srcdir : {"", "."}, filename : SeqsUpTo(NamedFiles, MaxFiles)]
    /\ cWalk \in SeqsUpTo(CSourceFiles, MaxFiles)
    /\ (cArgs.converters \/ ~cArgs.make \/ cArgs.output # "none" \/ cArgs.filename # <<>>
          \/ cArgs.srcdir = "") => cWalk = <<>>
    /\ cQueue = <<>>
    /\ cIdx = 0
    /\ cPc = "main"
    /\ cLanguage = "none"
    /\ cOutputPath = "none"
    /\ cExc = "none"
    /\ cExit = -1
    /\ cStderr = <<>>
    /\ cWrites = <<>>
    /\ pLeft = <<>> /\ pRequired = <<>> /\ pRight = <<>>
    /\ pPc = "idle" /\ pResult = <<>> /\ pLeftYield = <<>> /\ pRightYield = <<>>
    /\ tLine = <<>> /\ tPos = 1 /\ tYielded = <<>> /\ tStarts = <<>>
    /\ tStatus = "idle" /\ tStray = ""
    /\ vVersion1 = <<>> /\ vVersion2 = <<>> /\ vPc = "idle" /\ vResult = 0 /\ vRaised = "none"
    /\ nBase = create_base_namespace /\ nParsers = <<>> /\ nTouched = {}
    /\ nRun = [NoRun EXCEPT !.status = "idle"]

\* the module clinic.parser imported, no parser created yet; the other components are not running
NsInit ==
    /\ nBase = create_base_namespace
    /\ nParsers = <<>>
    /\ nTouched = {}
    /\ nRun = NoRun
    /\ pLeft = <<>> /\ pRequired = <<>> /\ pRight = <<>>
    /\ pPc = "idle" /\ pResult = <<>> /\ pLeftYield = <<>> /\ pRightYield = <<>>
    /\ tLine = <<>> /\ tPos = 1 /\ tYielded = <<>> /\ tStarts = <<>>
    /\ tStatus = "idle" /\ tStray = ""
    /\ vVersion1 = <<>> /\ vVersion2 = <<>> /\ vPc = "idle" /\ vResult = 0 /\ vRaised = "none"
    /\ cArgs = [converters |-> FALSE, make |-> FALSE, output |-> "none", srcdir |-> ".",
                 filename |-> <<>>]
    /\ cWalk = <<>> /\ cQueue = <<>> /\ cIdx = 0 /\ cPc = "idle" /\ cLanguage = "none"
    /\ cOutputPath = "none" /\ cExc = "none" /\ cExit = -1 /\ cStderr = <<>> /\ cWrites = <<>>

PermNext == PermCall

SpecPerm == PermInit /\ [][PermNext]_vars

TokNext == TokYield \/ TokSkip \/ TokRaise \/ TokStop

SpecTok == TokInit /\ [][TokNext]_vars

VerNext == VerCall

SpecVer == VerInit /\ [][VerNext]_vars

CliNext ==
    \/ ArgError \/ ListConverters \/ StartMake \/ StartFiles \/ LoopNext
    \/ PfStart \/ PfRead \/ PfSearch \/ PfParse \/ PfWrite
    \/ MainExcept \/ MainPropagate \/ MainElse

SpecCli == CliInit /\ [][CliNext]_vars

NsNext == NewParser \/ ParseBegin \/ ExecStmt \/ ParseEnd

SpecNs == NsInit /\ [][NsNext]_vars

\* ------------------------------------------------------------- claims

\* The groups l[a..b] concatenated in declaration order.
RECURSIVE ConcatRange(_, _, _)
ConcatRange(l, a, b) == IF a > b THEN <<>> ELSE l[a] \o ConcatRange(l, a + 1, b)

LeftVariant(j) == ConcatRange(pLeft, Len(pLeft) - j + 1, Len(pLeft))
RightVariant(k) == ConcatRange(pRight, 1, k)
\* the total length of each combination of j left groups and k right groups
TotalLens ==
    [j \in 0..Len(pLeft), k \in 0..Len(pRight) |->
        Len(LeftVariant(j)) + Len(pRequired) + Len(RightVariant(k))]
AchievableIn(tl) == { tl[jk] : jk \in DOMAIN tl }
FirstRight(tl, n) == MinOf({ k \in 0..Len(pRight) : \E j \in 0..Len(pLeft) : tl[j, k] = n })
FirstLeft(tl, n) == MinOf({ j \in 0..Len(pLeft) : tl[j, FirstRight(tl, n)] = n })

\* C1: a returned result holds exactly one variant per achievable total length,
\* each the first one visited (right-permutations outermost, both ascending:
\* the fewest right groups, then the fewest left groups), in strictly ascending
\* order of length.
C1_ResultIsFirstVisitedPerLength ==
    pPc = "returned" =>
        LET tl == TotalLens
            achievable == AchievableIn(tl)
        IN  /\ { Len(pResult[i]) : i \in 1..Len(pResult) } = achievable
            /\ Len(pResult) = Cardinality(achievable)
            /\ \A i \in 1..Len(pResult) - 1 : Len(pResult[i]) < Len(pResult[i + 1])
            /\ \A i \in 1..Len(pResult) :
                  LET n == Len(pResult[i])
                      k == FirstRight(tl, n)
                      j == FirstLeft(tl, n)
                  IN  pResult[i] = LeftVariant(j) \o pRequired \o RightVariant(k)

\* A call that returned, where some length was reachable both by a left group
\* and by a right group, so that deduplication dropped a variant.
C1_Witness ==
    /\ pPc = "returned"
    /\ pRequired # <<>>
    /\ LET tl == TotalLens
       IN  \E n \in AchievableIn(tl) :
              /\ FirstRight(tl, n) = 0 /\ FirstLeft(tl, n) > 0
              /\ \E k \in 1..Len(pRight) : tl[0, k] = n
    /\ Len(pResult) < (Len(pLeft) + 1) * (Len(pRight) + 1)

\* C2: the call raises exactly when required is empty and left is not, and a
\* raising call returns nothing.
C2_RaisesIffLeftWithoutRequired ==
    pPc # "ready" =>
        /\ (pPc = "raised") <=> (pRequired = <<>> /\ pLeft # <<>>)
        /\ pPc \in {"raised", "returned"}
        /\ pPc = "raised" => pResult = <<>>
        /\ pPc = "returned" => pResult # <<>>

C2_Witness == pPc = "raised" /\ pRequired = <<>> /\ pLeft # <<>> /\ pRight # <<>>

\* C3: each generator yields n+1 tuples for n groups: the empty tuple, then for
\* k = 1..n the k groups nearest the required block, concatenated in
\* declaration order (the last k groups on the left, the first k on the right).
C3_GeneratorsYieldNearestGroups ==
    pPc # "ready" =>
        /\ Len(pLeftYield) = Len(pLeft) + 1
        /\ Len(pRightYield) = Len(pRight) + 1
        /\ pLeftYield[1] = <<>> /\ pRightYield[1] = <<>>
        /\ \A k \in 1..Len(pLeft) :
              pLeftYield[k + 1] = ConcatRange(pLeft, Len(pLeft) - k + 1, Len(pLeft))
        /\ \A k \in 1..Len(pRight) :
              pRightYield[k + 1] = ConcatRange(pRight, 1, k)

C3_Witness ==
    /\ pPc # "ready"
    /\ pLeft = << <<1>>, <<2, 3>>, <<1>> >>
    /\ pRight = << <<1>>, <<2, 3>>, <<1>> >>
    /\ pLeftYield = << <<>>, <<1>>, <<2, 3, 1>>, <<1, 2, 3, 1>> >>
    /\ pRightYield = << <<>>, <<1>>, <<1, 2, 3>>, <<1, 2, 3, 1>> >>

\* --- the lexer

TokEnd(n) == tStarts[n] + Len(tYielded[n].value)
Covered(i) == \E n \in 1..Len(tYielded) : tStarts[n] <= i /\ i < TokEnd(n)
\* the ')' that follow position s before the line ends
ClosersAfter(s) ==
    { j \in (s + 1)..Len(tLine) : tLine[j] = ")" /\ \A m \in (s + 1)..j : tLine[m] # "\n" }

AsciiWordSet == Letters \cup Digits \cup {"_", "."}
UnicodeWordSet == AsciiWordSet \cup NonAsciiWordChars

\* Token n is the first alternative, in the order ARROW, CLONE, ARGS, WORD, that
\* matches where it starts, with WORD a maximal run over WordSet and ARGS
\* running to the last ')' of the line.
TokenAsClaimed(n, WordSet) ==
    LET s == tStarts[n]
        e == TokEnd(n)
        k == tYielded[n].kind
        isArrow == s < Len(tLine) /\ tLine[s] = "-" /\ tLine[s + 1] = ">"
        isClone == tLine[s] = "="
        isArgs  == tLine[s] = "(" /\ ClosersAfter(s) # {}
        isWord  == tLine[s] \in WordSet
    IN  /\ tYielded[n].value = SubSeq(tLine, s, e - 1)
        /\ k = (IF isArrow THEN "ARROW" ELSE IF isClone THEN "CLONE"
                ELSE IF isArgs THEN "ARGS" ELSE IF isWord THEN "WORD" ELSE "NOTOKEN")
        /\ k = "ARROW" => e = s + 2
        /\ k = "CLONE" => e = s + 1
        /\ k = "ARGS" => e - 1 = MaxOf(ClosersAfter(s))
        /\ k = "WORD" => /\ \A i \in s..(e - 1) : tLine[i] \in WordSet
                         /\ e <= Len(tLine) => tLine[e] \notin WordSet

\* Tokens come left to right, and what lies between them is only what yields
\* nothing: spaces, and line breaks, which no alternative matches.
LeftToRight ==
    /\ \A n \in 1..Len(tYielded) - 1 : TokEnd(n) <= tStarts[n + 1]
    /\ \A i \in 1..Len(tLine) : Covered(i) \/ tLine[i] \in {" ", "\n"}

TokensAsClaimed(WordSet) ==
    tStatus = "done" =>
        /\ \A n \in 1..Len(tYielded) : TokenAsClaimed(n, WordSet)
        /\ LeftToRight

\* C7 as stated: on a line that tokenizes without failure the yielded tokens
\* are the first matching alternative at each position, WORD being a run of
\* [A-Za-z0-9_.].
C7_Original == TokensAsClaimed(AsciiWordSet)

\* C7 amended: the same, WORD being a run of [\w.] with \w the Unicode word
\* characters Python's str patterns match.
C7_TokensFirstAlternative == TokensAsClaimed(UnicodeWordSet)

C7_Witness ==
    /\ tStatus = "done"
    /\ tLine = Chars("foo(bar)->baz=1")
    /\ tYielded = << [kind |-> "WORD", value |-> Chars("foo")],
                      [kind |-> "ARGS", value |-> Chars("(bar)")],
                      [kind |-> "ARROW", value |-> Chars("->")],
                      [kind |-> "WORD", value |-> Chars("baz")],
                      [kind |-> "CLONE", value |-> Chars("=")],
                      [kind |-> "WORD", value |-> Chars("1")] >>

\* C8 as stated: a line that contains '#' never tokenizes to the end without
\* failure, and '#' is never part of a yielded token.
C8_Original ==
    (\E i \in 1..Len(tLine) : tLine[i] = "#") =>
        /\ tStatus # "done"
        /\ \A n \in 1..Len(tYielded) :
              \A i \in 1..Len(tYielded[n].value) : tYielded[n].value[i] # "#"

\* C8 amended: the ParseError names the character the scan stopped at, which
\* is outside every token and is no space, line break, '=', [\w.] character,
\* '->' or opening of an ARGS run; a line tokenizes to the end only if every
\* character is inside a token or is a space or a line break (the only
\* characters passed over); and only ARGS tokens hold anything but '->', '='
\* or [\w.] characters.
C8_StrayOutsideArgsRaises ==
    /\ tStatus = "raised" =>
          /\ tPos \in 1..Len(tLine)
          /\ tStray = <<tLine[tPos]>>
          /\ ~Covered(tPos)
          /\ tLine[tPos] \notin UnicodeWordSet \cup {" ", "\n", "="}
          /\ ~(tPos < Len(tLine) /\ tLine[tPos] = "-" /\ tLine[tPos + 1] = ">")
          /\ ~(tLine[tPos] = "(" /\ ClosersAfter(tPos) # {})
          /\ \A i \in 1..(tPos - 1) : Covered(i) \/ tLine[i] \in {" ", "\n"}
    /\ tStatus = "done" =>
          \A i \in 1..Len(tLine) : Covered(i) \/ tLine[i] \in {" ", "\n"}
    /\ \A n \in 1..Len(tYielded) :
          LET v == tYielded[n].value
              k == tYielded[n].kind
          IN  /\ k = "ARROW" => v = <<"-", ">">>
              /\ k = "CLONE" => v = <<"=">>
              /\ k = "WORD" => \A i \in 1..Len(v) : v[i] \in UnicodeWordSet
              /\ k \in {"ARROW", "CLONE", "WORD", "ARGS"}

C8_Witness ==
    /\ tStatus = "raised"
    /\ tLine = Chars("a.b_c = d # e")
    /\ tStray = <<"#">>
    /\ Len(tYielded) = 3

\* --- the version comparator

VerLetters == { "a", "b", "c" }

RECURSIVE Pow10(_)
Pow10(n) == IF n = 0 THEN 1 ELSE 10 * Pow10(n - 1)

\* the decimal value of the digit run s[a..b]
RunValue(s, a, b) ==
    LET idx == a..b
        f[S \in SUBSET idx] ==
            IF S = {} THEN 0
            ELSE LET i == CHOOSE x \in S : TRUE
                 IN  DigitValue(s[i]) * Pow10(b - i) + f[S \ {i}]
    IN  f[idx]

\* The tuple the claim describes: one component per digit run, and one
\* component -3/-2/-1 per letter a/b/c, in the order of the string.
RECURSIVE ClaimedTuple(_, _)
ClaimedTuple(s, i) ==
    IF i > Len(s) THEN <<>>
    ELSE IF s[i] \in VerLetters
    THEN << (CASE s[i] = "a" -> -3 [] s[i] = "b" -> -2 [] s[i] = "c" -> -1) >>
         \o ClaimedTuple(s, i + 1)
    ELSE IF s[i] \in Digits
    THEN LET e == MinOf({ j \in (i + 1)..(Len(s) + 1) : j > Len(s) \/ s[j] \notin Digits })
         IN  << RunValue(s, i, e - 1) >> \o ClaimedTuple(s, e)
    ELSE ClaimedTuple(s, i + 1)

Padded(t, n) == [i \in 1..n |-> IF i <= Len(t) THEN t[i] ELSE 0]

\* -1, 0 or 1 by the first component where the zero-padded tuples differ
ClaimedOrder(t1, t2) ==
    LET n == IF Len(t1) > Len(t2) THEN Len(t1) ELSE Len(t2)
        a == Padded(t1, n)
        b == Padded(t2, n)
        diff == { i \in 1..n : a[i] # b[i] }
    IN  IF diff = {} THEN 0
        ELSE IF a[MinOf(diff)] < b[MinOf(diff)] THEN -1 ELSE 1

\* C9: for well-formed version strings the comparator returns -1, 0 or 1 by
\* the first differing component of the zero-padded integer tuples (digit
\* runs, and -3/-2/-1 for a/b/c); "1.4b3" is less than "1.4.0"; a trailing
\* ".0" changes nothing; and swapping the arguments negates the result.
C9_ComparesPaddedTuples ==
    vPc = "returned" =>
        LET t1 == ClaimedTuple(vVersion1, 1)
            t2 == ClaimedTuple(vVersion2, 1)
        IN  /\ version_splitter(vVersion1).value = t1
            /\ version_splitter(vVersion2).value = t2
            /\ vResult \in {-1, 0, 1}
            /\ vResult = ClaimedOrder(t1, t2)
            /\ version_comparator(vVersion2, vVersion1).value = -vResult
            /\ vVersion2 = vVersion1 \o <<".", "0">> => vResult = 0
            /\ (vVersion1 = Chars("1.4b3") /\ vVersion2 = Chars("1.4.0")) =>
                  /\ t1 = <<1, 4, -2, 3>> /\ t2 = <<1, 4, 0>> /\ vResult = -1

C9_Witness ==
    /\ vPc = "returned"
    /\ vVersion1 = Chars("1.4b3")
    /\ vVersion2 = Chars("1.4.0")
    /\ vResult = -1

\* --- the command-line driver

Written(i) == \E n \in 1..Len(cWrites) : cWrites[n].file = i
WriteCount(i) == Cardinality({ n \in 1..Len(cWrites) : cWrites[n].file = i })
Terminated == cPc \in {"exited", "uncaught"}
FilesNamed == ~cArgs.converters /\ ~cArgs.make /\ cQueue # <<>>

\* C4: each execution of parse_file writes at most once, to the output path if
\* one was given and to the input path otherwise, and only once a start marker
\* was found and the parse returned; a file without a start marker, and a
\* file whose processing raised, is not written.
C4_WriteOnlyAfterSuccessfulParse ==
    \A i \in 1..Len(cQueue) :
        /\ WriteCount(i) <= 1
        /\ Written(i) =>
              /\ cQueue[i].marker /\ cQueue[i].parse = "ok"
              /\ i < cIdx \/ (i = cIdx /\ cPc \in {"loop", "returned", "exited"})
              /\ \A n \in 1..Len(cWrites) :
                    cWrites[n].file = i =>
                        cWrites[n].path = (IF cArgs.output = "none" THEN "in" ELSE "out")
        /\ ~cQueue[i].marker => ~Written(i)
        /\ (i = cIdx /\ cExc # "none") => ~Written(i)

C4_Witness ==
    /\ cPc = "exited"
    /\ Len(cQueue) = 2
    /\ cWrites = << [file |-> 1, path |-> "in"] >>
    /\ cQueue[2].exists /\ ~cQueue[2].marker /\ cQueue[2].ext = "c"
    /\ cExit = 0

\* processing the file returns and writes it
Succeeds(f) == f.ext = "c" /\ f.exists /\ f.marker /\ f.parse = "ok"
\* processing the file raises
Fails(f) ==
    \/ f.ext \notin {"c", "py"}
    \/ ~f.exists
    \/ f.marker /\ (f.ext = "py" \/ f.parse # "ok")

\* C5 as stated: whatever its position in the list, a named file that
\* processes without error has been written when main ends.
C5_Original ==
    (Terminated /\ FilesNamed) =>
        \A i \in 1..Len(cQueue) : Succeeds(cQueue[i]) => Written(i)

\* C5 amended: the named files are processed in order up to the first one that
\* raises; that file and every later one are left alone, the earlier ones are
\* written when they succeed.
C5_FirstErrorStopsTheRun ==
    (Terminated /\ FilesNamed) =>
        /\ \A i \in 1..Len(cQueue) :
              Written(i) <=> (Succeeds(cQueue[i]) /\ \A j \in 1..i : ~Fails(cQueue[j]))
        /\ (\E j \in 1..Len(cQueue) : Fails(cQueue[j])) =>
              /\ cExc # "none"
              /\ cIdx = MinOf({ j \in 1..Len(cQueue) : Fails(cQueue[j]) })

C5_Witness ==
    /\ Terminated /\ FilesNamed
    /\ Len(cQueue) = 2
    /\ Fails(cQueue[1]) /\ Succeeds(cQueue[2])
    /\ cWrites = <<>>
    /\ cIdx = 1

\* the errors the claim calls the tagged family
TaggedFamily ==
    { "ClinicError", "ParseError", "ChecksumMismatchError", "ValueError", "ParseVersionError" }

\* C6 as stated: main exits 0 when no error occurred, and exits 1 after a
\* diagnostic when an error of the tagged family occurred.
C6_Original ==
    (Terminated /\ cExit # 2) =>
        /\ cExc = "none" => cExit = 0
        /\ cExc \in TaggedFamily => (cExit = 1 /\ cStderr # <<>>)

\* C6 amended: main exits 0 when no error occurred; it exits 1 after one
\* diagnostic exactly when the error is a ClinicError (ParseError and the
\* checksum error included); the ValueError of permute_optional_groups,
\* ParseVersionError, and every other exception leave main uncaught, with no
\* diagnostic and no exit status.
C6_OnlyClinicErrorIsReported ==
    (Terminated /\ cExit # 2) =>
        /\ cExc = "none" => (cPc = "exited" /\ cExit = 0 /\ cStderr = <<>>)
        /\ cExc \in {"ClinicError", "ParseError", "ChecksumMismatchError"} =>
              (cPc = "exited" /\ cExit = 1 /\ cStderr = <<"report">>)
        /\ cExc \in {"ValueError", "ParseVersionError", "AssertionError", "FileNotFoundError"} =>
              (cPc = "uncaught" /\ cExit = -1 /\ cStderr = <<>>)
        /\ cExc \in {"none", "ClinicError", "ParseError", "ChecksumMismatchError", "ValueError",
                      "ParseVersionError", "AssertionError", "FileNotFoundError"}

C6_Witness ==
    /\ cPc = "uncaught"
    /\ cExc = "ValueError"
    /\ cExit = -1
    /\ Len(cWrites) = 1

\* --- the raw-script block parser

\* the names the base namespace is built with: the fixed ones, then one per
\* converter and one per return converter
BaseNames ==
    { "CConverter", "CReturnConverter", "buffer", "robuffer", "rwbuffer", "unspecified",
      "NoneType", "int_converter", "str_converter", "int_return_converter" }

\* what a block prints, and whether it fails, given only the base bindings and
\* its own statements
RECURSIVE FreshRun(_, _, _, _)
FreshRun(input, i, bound, out) ==
    IF i > Len(input) THEN [stdout |-> out, raised |-> "none"]
    ELSE LET stmt == input[i]
         IN  CASE stmt.op = "bind" ->
                    FreshRun(input, i + 1,
                             [n \in StmtNames |-> IF n = stmt.name THEN "new" ELSE bound[n]], out)
               [] stmt.op # "bind" /\ bound[stmt.name] = "unbound" ->
                    [stdout |-> out, raised |-> "NameError"]
               [] stmt.op = "del" /\ bound[stmt.name] # "unbound" ->
                    FreshRun(input, i + 1,
                             [n \in StmtNames |-> IF n = stmt.name THEN "unbound" ELSE bound[n]], out)
               [] stmt.op = "print" /\ bound[stmt.name] # "unbound" ->
                    FreshRun(input, i + 1, bound, Append(out, bound[stmt.name]))

\* C10: whatever blocks were parsed, the base namespace and every parser's
\* namespace bind exactly the names they were built with, to the same objects,
\* and a block sees only those bindings and its own: nothing an earlier block
\* bound, rebound or deleted.
C10_NamespacesUnchanged ==
    /\ DOMAIN nBase = BaseNames
    /\ \A n \in BaseNames : nBase[n] = "base"
    /\ \A p \in 1..Len(nParsers) :
          DOMAIN nParsers[p] = BaseNames /\ \A n \in BaseNames : nParsers[p][n] = "base"
    /\ nRun.status \in {"running", "returned", "raised"} =>
          LET fresh == FreshRun(nRun.input, 1,
                                [n \in StmtNames |-> IF n \in BaseNames THEN "base" ELSE "unbound"],
                                <<>>)
          IN  /\ nRun.stdout = fresh.stdout
              /\ nRun.raised = fresh.raised
              /\ nRun.status = "returned" => nRun.output = fresh.stdout

\* A block prints a name that an earlier block rebound and sees the base
\* object, then reads a name an earlier block bound and finds it unbound.
C10_Witness ==
    /\ Len(nParsers) = 2
    /\ nRun.touchedBefore = {"x", "buffer"}
    /\ nRun.input = << [op |-> "print", name |-> "buffer"], [op |-> "print", name |-> "x"] >>
    /\ nRun.stdout = <<"base">>
    /\ nRun.status = "raised"

====
